---- MODULE Spec2Model ----
(***************************************************************************)
(* State-machine model of the FreeRTOS task binding: src/src/task.rs       *)
(* (Task, TaskBuilder, TaskNotification, TaskPriority, CurrentTask) and    *)
(* src/src/delays.rs.  The kernel primitives behind the freertos_rs_*      *)
(* foreign calls are not part of the two source files; they are modelled   *)
(* from the boundary description of the specification (section 6).        *)
(***************************************************************************)
EXTENDS Integers, Naturals, Sequences, FiniteSets, TLC

(***************************************************************************)
(* Bounds of the model.                                                    *)
(***************************************************************************)
\* number of Task::spawn calls that are followed
MaxSpawns == 2

Calls == 1..MaxSpawns

\* width of the notification value in the model (a u32 in task.rs 30-38)
ValueBits == 2

\* the run of Increment commands that is counted exactly; longer runs count
\* as this many
IncCap == 3

\* width of the tick counter in the model (FreeRtosTickType, delays.rs 9 and 35)
TickBits == 3

\* the longest period or delay, in ticks
MaxPeriod == 3

\* the delay_until calls that are counted exactly; more count as this many
DelayCap == 2

\* the longest task name, in bytes
MaxNameLen == 300

\* the notification values
Word == 0..(2^ValueBits - 1)

\* the tasks: every task notifies; the notifications and the waits of the
\* tasks of Waiters are followed
Tasks == {"t1", "t2"}

Waiters == {"t1"}

\* the bit masks wait_for_notification is called with: no bit, the lowest
\* bit, every bit
Masks == {0, 1, 2^ValueBits - 1}

(***************************************************************************)
(* task.rs: value types                                                    *)
(***************************************************************************)
\* task.rs 17-22
TaskPriority == {"BelowNormal", "Normal", "AboveNormal", "High"}

\* task.rs 17-22: the place of a level in the order BelowNormal < Normal <
\* AboveNormal < High
TaskPriority_rank(p) ==
    CASE p = "BelowNormal" -> 0
      [] p = "Normal"      -> 1
      [] p = "AboveNormal" -> 2
      [] p = "High"        -> 3

\* Variant of TaskPriority_to_freertos: AboveNormal is given the value of
\* Normal.
TaskPriority_to_freertos_merged(p) ==
    CASE p = "BelowNormal" -> 6
      [] p = "Normal"      -> 5
      [] p = "AboveNormal" -> 5
      [] p = "High"        -> 3

\* task.rs 53-62
TaskPriority_to_freertos(p) ==
    CASE p = "BelowNormal" -> 6
      [] p = "Normal"      -> 5
      [] p = "AboveNormal" -> 4
      [] p = "High"        -> 3

\* task.rs 122-128: the builder's defaults ("rust_task" is 9 bytes long)
Task_new == [name_len |-> 9, stack_size |-> 1024, priority |-> "Normal"]

\* The configurations a TaskBuilder is driven to (task.rs 75-90): the
\* defaults, an empty name on a small stack, a 256-byte name on the largest
\* stack a u16 holds.
Configs ==
    { Task_new,
      [name_len |-> 0,   stack_size |-> 128,   priority |-> "High"],
      [name_len |-> 256, stack_size |-> 65535, priority |-> "BelowNormal"] }

NoConfig == [name_len |-> 0, stack_size |-> 0, priority |-> "Normal"]

\* what the kernel holds of a unit that does not exist
NoUnit == [entry |-> "none", name_len |-> 0, stack_size |-> 0, priority |-> 0]

\* task.rs 26-39: the commands, as [kind, v]
TaskNotification ==
    { [kind |-> "NoAction", v |-> 0], [kind |-> "Increment", v |-> 0] }
    \cup [kind : {"SetBits", "OverwriteValue", "SetValue"}, v : Word]

\* Variants of TaskNotification_to_freertos: SetBits sent with the action
\* code of Increment; Increment sent with the action code of SetBits; the
\* action codes of OverwriteValue and SetValue exchanged.
to_freertos_setbits_as_increment(n) ==
    CASE n.kind = "NoAction"       -> << 0, 0 >>
      [] n.kind = "SetBits"        -> << n.v, 2 >>
      [] n.kind = "Increment"      -> << 0, 2 >>
      [] n.kind = "OverwriteValue" -> << n.v, 3 >>
      [] n.kind = "SetValue"       -> << n.v, 4 >>

to_freertos_increment_as_setbits(n) ==
    CASE n.kind = "NoAction"       -> << 0, 0 >>
      [] n.kind = "SetBits"        -> << n.v, 1 >>
      [] n.kind = "Increment"      -> << 0, 1 >>
      [] n.kind = "OverwriteValue" -> << n.v, 3 >>
      [] n.kind = "SetValue"       -> << n.v, 4 >>

to_freertos_overwrite_setvalue_swapped(n) ==
    CASE n.kind = "NoAction"       -> << 0, 0 >>
      [] n.kind = "SetBits"        -> << n.v, 1 >>
      [] n.kind = "Increment"      -> << 0, 2 >>
      [] n.kind = "OverwriteValue" -> << n.v, 4 >>
      [] n.kind = "SetValue"       -> << n.v, 3 >>

\* task.rs 41-51: (value, action code)
TaskNotification_to_freertos(n) ==
    CASE n.kind = "NoAction"       -> << 0, 0 >>
      [] n.kind = "SetBits"        -> << n.v, 1 >>
      [] n.kind = "Increment"      -> << 0, 2 >>
      [] n.kind = "OverwriteValue" -> << n.v, 3 >>
      [] n.kind = "SetValue"       -> << n.v, 4 >>

\* the timeouts a Duration stands for (task.rs 251, 259): none, some ticks,
\* wait indefinitely
Durations == {"zero", "finite", "infinite"}

(***************************************************************************)
(* Arithmetic on notification values                                       *)
(***************************************************************************)
RECURSIVE BitOrN(_, _, _)
BitOrN(a, b, n) ==
    IF n = 0 THEN 0
    ELSE (IF a % 2 = 1 \/ b % 2 = 1 THEN 1 ELSE 0)
         + 2 * BitOrN(a \div 2, b \div 2, n - 1)

RECURSIVE BitAndN(_, _, _)
BitAndN(a, b, n) ==
    IF n = 0 THEN 0
    ELSE (IF a % 2 = 1 /\ b % 2 = 1 THEN 1 ELSE 0)
         + 2 * BitAndN(a \div 2, b \div 2, n - 1)

\* a | b
BitOr(a, b) == BitOrN(a, b, ValueBits)

\* a & b
BitAnd(a, b) == BitAndN(a, b, ValueBits)

\* a & ~m
BitClear(a, m) == a - BitAnd(a, m)

(***************************************************************************)
(* The kernel's notification primitives (specification sections 3, 4.1, 6) *)
(***************************************************************************)
\* notify(handle, value, action code): the target's new notification value.
\* Action 4 sets the value only if no notification is pending.
kernel_notify_value(value, pending, v, action) ==
    CASE action = 0 -> value
      [] action = 1 -> BitOr(value, v)
      [] action = 2 -> (value + 1) % (2^ValueBits)
      [] action = 3 -> v
      [] action = 4 -> IF pending THEN value ELSE v

\* notify(handle, value, action code): the status; nonzero when action 4
\* found a notification pending.
kernel_notify_status(pending, action) ==
    IF action = 4 /\ pending THEN 1 ELSE 0

\* notify-take(clear flag, ticks): the value left behind when the value
\* returned is `value`.
kernel_take_value(value, clear_flag) ==
    IF value = 0 THEN value
    ELSE IF clear_flag # 0 THEN 0 ELSE value - 1

\* notify-take(clear flag, ticks): with a zero value the task blocks, unless
\* the timeout is zero; with a nonzero value it goes on at once.
kernel_take_phase(value, wait_for) ==
    IF value = 0 /\ wait_for # "zero" THEN "blocked" ELSE "entered"

\* notify-wait(clear-on-entry mask, clear-on-exit mask, out value, ticks):
\* without a pending notification the task blocks, unless the timeout is zero.
kernel_wait_phase(pending, wait_for) ==
    IF ~pending /\ wait_for # "zero" THEN "blocked" ELSE "entered"

\* notify-wait: the status, 0 when a notification was received
kernel_wait_status(pending) == IF pending THEN 0 ELSE 1

\* notify-wait: the value left behind; the exit bits are cleared after a
\* notification was received
kernel_wait_value(value, pending, clear_bits_exit) ==
    IF pending THEN BitClear(value, clear_bits_exit) ELSE value

(***************************************************************************)
(* State                                                                   *)
(***************************************************************************)
VARIABLES
    \* ---- the kernel's notification state of each task ----
    notif_value,    \* the notification value
    notif_state,    \* "NotWaiting" | "Waiting" | "Received" (pending)
    wait_op,        \* the take/wait call the task is in, and how far it is
    \* ---- bookkeeping for the properties ----
    last_cmd,       \* the last command notified since the task's last take/wait
                    \* returned; NoCmd if none
    inc_run,        \* n >= 0: the value was zero and exactly n Increment
                    \* commands followed (n = IncCap: at least that many);
                    \* -1 otherwise
    returned,       \* the call that returned in the last step, with what
                    \* it returned and what it found
    \* ---- Task::spawn_inner, one entry per call ----
    spawn_pc,       \* "idle" | "boxed" | "created" | "returned"
    spawn_cfg,      \* the (name, stack_size, priority) the call was given
    spawn_ret,      \* what freertos_rs_spawn_task returned; -1 before the call
    spawn_result,   \* "none" | "Ok" | "OutOfMemory"
    \* ---- the boxed closure of each call ----
    closure_box,    \* "none" | "live" | "freed"
    frees,          \* who freed the box, in order: "spawn_inner" | "thread_start"
    closure_runs,   \* how many times the closure was entered
    closure_returns, \* how many times the closure returned
    \* ---- the kernel's execution unit of each call ----
    unit_state,     \* "absent" | "ready" | "in_closure" | "deleted"
    unit_pc,        \* position in thread_start
    unit_owns,      \* thread_start holds the box reclaimed with Box::from_raw
    unit_created,   \* what the create-task primitive was handed
    delete_calls,   \* calls of freertos_rs_delete_task by the unit
    \* ---- interrupt handling ----
    task_prio,      \* the TaskPriority each task was spawned with
    running,        \* the task that holds the processor (in an interrupt:
                    \* the task that was interrupted)
    isr_ctx,        \* the InterruptContext of the handler that is running:
                    \* active, and its higher-priority-task-woken flag
    \* ---- the delay helpers, used by one task ----
    tick,           \* the kernel's tick count, a wrapping counter
    overflow_checks, \* the build panics on integer overflow (debug profile)
                    \* or wraps (release profile)
    delay_task,     \* "running" | "delayed" | "panicked"
    periodic,       \* the TaskDelayPeriodic: last_wake_time and period
    task_delay,     \* the TaskDelay: last_wake_time
    delay_ret,      \* the helper call made in the last step, with what it
                    \* found and what came of it
    since_reset,    \* ticks since the last reset() of the TaskDelayPeriodic,
                    \* counted up to a full turn of the counter; -1 before
    set_from,       \* the baseline and the periods of a set_period that no
                    \* should_run or reset has followed yet
    delay_t0,       \* the tick at which the TaskDelay was created
    delay_sum,      \* sum of the delays asked of delay_until, modulo the
                    \* counter width
    delay_calls,    \* delay_until calls so far, counted up to DelayCap
    \* ---- calls that keep no state ----
    pure_call       \* the call made in the last step: what it was given
                    \* and what it gave back

spawnVars == << spawn_pc, spawn_cfg, spawn_ret, spawn_result, closure_box, frees,
                closure_runs, closure_returns, unit_state, unit_pc, unit_owns,
                unit_created, delete_calls >>

notifyVars == << notif_value, notif_state, wait_op, last_cmd, inc_run, returned >>

isrVars == << task_prio, running, isr_ctx >>

delayVars == << tick, overflow_checks, delay_task, periodic, task_delay,
                delay_ret, since_reset, set_from, delay_t0, delay_sum,
                delay_calls >>

pureVars == << pure_call >>

extVars == << isrVars, delayVars, pureVars >>

vars == << spawnVars, notifyVars, extVars >>

NoCmd == [kind |-> "none", v |-> 0]

\* wait_op of a task that is in no take or wait.  Of a call under way it
\* holds: on, the task the kernel acts on; clear and arg, the caller's flag
\* and what the kernel was handed (the clear flag, or the exit mask);
\* phase, "entered" | "blocked" | "woken" | "timed_out"; and for the
\* properties: notified, whether a notify of the task had completed when the
\* call began, and seen, the value the call found.
NoWait == [op |-> "none", on |-> "none", clear |-> FALSE, arg |-> 0,
           wait_for |-> "zero", phase |-> "idle", notified |-> FALSE, seen |-> 0]

NoReturn == [op |-> "none"]

(***************************************************************************)
(* Task::spawn / Task::spawn_inner                                         *)
(***************************************************************************)
\* Variant of name_len_as_u8: a length above 255 is passed as 255.
name_len_saturating(n) == IF n > 255 THEN 255 ELSE n

\* task.rs 147: name_len as u8
name_len_as_u8(n) == n % 256

\* task.rs 152: (ret == 0, task_handle)
spawn_success(ret) == ret = 0

\* Variants of spawn_inner_release: the box is dropped on every path (the
\* mem::forget is missing); the box is forgotten on every path.
spawn_inner_release_always_drop(success) == "drop"

spawn_inner_release_always_forget(success) == "forget"

\* task.rs 155-159: on success the box is forgotten, otherwise the early
\* return drops it.
spawn_inner_release(success) == IF success THEN "forget" ELSE "drop"

\* task.rs 158, 175
spawn_inner_result(success) == IF success THEN "Ok" ELSE "OutOfMemory"

\* Variant of thread_start: the unit deletes itself before the closure is called.
thread_start_delete_first == << "from_raw", "delete_task", "call", "drop" >>

\* task.rs 161-173: the trampoline, as the sequence of its steps.
thread_start == << "from_raw", "call", "drop", "delete_task" >>

\* task.rs 93-103, 179-190, 135-136: TaskBuilder::start hands the
\* configuration to Task::spawn, which boxes the closure; spawn_inner boxes
\* it again and takes the raw address.
SpawnBox(c) ==
    /\ UNCHANGED << notifyVars, extVars >>
    /\ spawn_pc[c] = "idle"
    /\ \E cfg \in Configs :
          spawn_cfg' = [spawn_cfg EXCEPT ![c] = cfg]
    /\ spawn_pc' = [spawn_pc EXCEPT ![c] = "boxed"]
    /\ closure_box' = [closure_box EXCEPT ![c] = "live"]
    /\ UNCHANGED << spawn_ret, spawn_result, frees, closure_runs, closure_returns,
                    unit_state, unit_pc, unit_owns, unit_created, delete_calls >>

\* The kernel's create-task primitive (specification section 6): a handle or
\* a failure; on success the unit exists and will be entered at its entry
\* point with the context pointer.
freertos_rs_spawn_task(c, entry, name_len, stack_size, priority, ok) ==
    /\ spawn_ret' = [spawn_ret EXCEPT ![c] = IF ok THEN 0 ELSE 1]
    /\ IF ok
         THEN /\ unit_state' = [unit_state EXCEPT ![c] = "ready"]
              /\ unit_pc' = [unit_pc EXCEPT ![c] = 1]
              /\ unit_created' = [unit_created EXCEPT ![c] =
                    [entry |-> entry, name_len |-> name_len,
                     stack_size |-> stack_size, priority |-> priority]]
         ELSE UNCHANGED << unit_state, unit_pc, unit_created >>

\* task.rs 138-153
SpawnCreate(c) ==
    /\ UNCHANGED << notifyVars, extVars >>
    /\ spawn_pc[c] = "boxed"
    /\ \E ok \in BOOLEAN :
          freertos_rs_spawn_task(c, "thread_start",
                                 name_len_as_u8(spawn_cfg[c].name_len),
                                 spawn_cfg[c].stack_size,
                                 TaskPriority_to_freertos(spawn_cfg[c].priority),
                                 ok)
    /\ spawn_pc' = [spawn_pc EXCEPT ![c] = "created"]
    /\ UNCHANGED << spawn_cfg, spawn_result, closure_box, frees, closure_runs,
                    closure_returns, unit_owns, delete_calls >>

\* task.rs 155-159, 175
SpawnFinish(c) ==
    /\ UNCHANGED << notifyVars, extVars >>
    /\ spawn_pc[c] = "created"
    /\ LET success == spawn_success(spawn_ret[c]) IN
         /\ IF spawn_inner_release(success) = "drop"
              THEN /\ frees' = [frees EXCEPT ![c] = Append(@, "spawn_inner")]
                   /\ closure_box' = [closure_box EXCEPT ![c] = "freed"]
              ELSE UNCHANGED << frees, closure_box >>
         /\ spawn_result' = [spawn_result EXCEPT ![c] = spawn_inner_result(success)]
    /\ spawn_pc' = [spawn_pc EXCEPT ![c] = "returned"]
    /\ spawn_cfg' = [spawn_cfg EXCEPT ![c] = NoConfig]   \* the arguments are gone
    /\ UNCHANGED << spawn_ret, closure_runs, closure_returns,
                    unit_state, unit_pc, unit_owns, unit_created, delete_calls >>

(***************************************************************************)
(* thread_start, run by the kernel on the new unit                         *)
(***************************************************************************)
\* The kernel's delete-task primitive on the calling unit (section 6).
freertos_rs_delete_task(c) ==
    /\ delete_calls' = [delete_calls EXCEPT ![c] = @ + 1]
    /\ unit_state' = [unit_state EXCEPT ![c] = "deleted"]
    /\ unit_created' = [unit_created EXCEPT ![c] = NoUnit]

\* One step of the trampoline (task.rs 161-173).
ThreadStartStep(c) ==
    /\ UNCHANGED << notifyVars, extVars >>
    /\ unit_state[c] = "ready"
    /\ unit_pc[c] <= Len(thread_start)
    /\ LET step == thread_start[unit_pc[c]] IN
         CASE step = "from_raw" ->      \* task.rs 165
                /\ unit_owns' = [unit_owns EXCEPT ![c] = TRUE]
                /\ unit_pc' = [unit_pc EXCEPT ![c] = @ + 1]
                /\ UNCHANGED << closure_runs, unit_state, frees, closure_box,
                                delete_calls, unit_created >>
           [] step = "call" ->          \* task.rs 166
                /\ closure_runs' = [closure_runs EXCEPT ![c] = @ + 1]
                /\ unit_state' = [unit_state EXCEPT ![c] = "in_closure"]
                /\ UNCHANGED << unit_owns, unit_pc, frees, closure_box,
                                delete_calls, unit_created >>
           [] step = "drop" ->          \* task.rs 167
                /\ IF unit_owns[c]
                     THEN /\ frees' = [frees EXCEPT ![c] = Append(@, "thread_start")]
                          /\ closure_box' = [closure_box EXCEPT ![c] = "freed"]
                     ELSE UNCHANGED << frees, closure_box >>
                /\ unit_owns' = [unit_owns EXCEPT ![c] = FALSE]
                /\ unit_pc' = [unit_pc EXCEPT ![c] = @ + 1]
                /\ UNCHANGED << closure_runs, unit_state, delete_calls, unit_created >>
           [] step = "delete_task" ->   \* task.rs 169
                /\ freertos_rs_delete_task(c)
                /\ unit_pc' = [unit_pc EXCEPT ![c] = @ + 1]
                /\ UNCHANGED << closure_runs, unit_owns, frees, closure_box >>
    /\ UNCHANGED << spawn_pc, spawn_cfg, spawn_ret, spawn_result, closure_returns >>

\* The closure's body comes to its end and control is back in thread_start
\* (task.rs 166).  A closure need not return.
ClosureReturn(c) ==
    /\ UNCHANGED << notifyVars, extVars >>
    /\ unit_state[c] = "in_closure"
    /\ unit_state' = [unit_state EXCEPT ![c] = "ready"]
    /\ unit_pc' = [unit_pc EXCEPT ![c] = @ + 1]
    /\ closure_returns' = [closure_returns EXCEPT ![c] = @ + 1]
    /\ UNCHANGED << spawn_pc, spawn_cfg, spawn_ret, spawn_result, closure_box,
                    frees, closure_runs, unit_owns, unit_created, delete_calls >>

(***************************************************************************)
(* Task::notify, Task::set_notification_value                              *)
(***************************************************************************)
Min(a, b) == IF a <= b THEN a ELSE b

\* Variant of notify_handle: the kernel is handed the calling task.
notify_handle_current(self, caller) == caller

\* task.rs 227: the kernel is handed self.task_handle
notify_handle(self, caller) == self

\* Variant of notify_result: the kernel's status is handed on as an error.
notify_result_status(status) == IF status = 0 THEN "unit" ELSE "Err"

\* task.rs 224-229: notify returns (), the status of the kernel call is dropped
notify_result(status) == "unit"

\* The kernel's notify primitive (section 6): the command is merged into the
\* target's value, the notification is pending, and a target blocked in a
\* take or wait is made ready.
freertos_rs_task_notify(target, v, action) ==
    /\ notif_value' = [notif_value EXCEPT ![target] =
            kernel_notify_value(@, notif_state[target] = "Received", v, action)]
    /\ notif_state' = [notif_state EXCEPT ![target] = "Received"]
    /\ wait_op' = [u \in Tasks |->
            IF wait_op[u].on = target /\ wait_op[u].phase = "blocked"
              THEN [wait_op[u] EXCEPT !.phase = "woken"]
              ELSE wait_op[u]]

\* task.rs 224-229, called as `op` by a running task on the handle `self`
NotifyCall(caller, self, n, op) ==
    /\ wait_op[caller].op = "none"
    /\ LET target  == notify_handle(self, caller)
           nn      == TaskNotification_to_freertos(n)
           status  == kernel_notify_status(notif_state[target] = "Received", nn[2])
       IN /\ freertos_rs_task_notify(target, nn[1], nn[2])
          /\ returned' = [op      |-> op,
                          target  |-> self,
                          cmd     |-> n,
                          before  |-> notif_value[self],
                          pending |-> notif_state[self] = "Received",
                          blocked |-> wait_op[self].phase = "blocked",
                          result  |-> notify_result(status)]
    /\ last_cmd' = [last_cmd EXCEPT ![self] = n]
    /\ inc_run' = [inc_run EXCEPT ![self] =
            IF n.kind = "Increment" /\ @ >= 0 THEN Min(@ + 1, IncCap) ELSE -1]
    /\ UNCHANGED << spawnVars, extVars >>

\* task.rs 224-229
Notify(caller, self) ==
    \E n \in TaskNotification : NotifyCall(caller, self, n, "notify")

\* task.rs 219-221
SetNotificationValue(caller, self) ==
    \E val \in Word :
        NotifyCall(caller, self, [kind |-> "OverwriteValue", v |-> val],
                   "set_notification_value")

(***************************************************************************)
(* Task::take_notification, Task::wait_for_notification                    *)
(***************************************************************************)
\* Variant of waiting_task: the kernel acts on the task of the handle.
waiting_task_of_handle(caller, self) == self

\* task.rs 252, 263: no handle is passed to the kernel, which acts on the
\* task that makes the call
waiting_task(caller, self) == caller

\* Variant of take_notification_clear_arg: the flag is inverted.
take_notification_clear_arg_inverted(clear) == IF clear THEN 0 ELSE 1

\* task.rs 252: if clear { 1 } else { 0 }
take_notification_clear_arg(clear) == IF clear THEN 1 ELSE 0

\* Variant of wait_for_notification_result: the status test is inverted.
wait_for_notification_result_inverted(r, val) ==
    IF r # 0 THEN << "Ok", val >> ELSE << "Err", "Timeout" >>

\* task.rs 268-272
wait_for_notification_result(r, val) ==
    IF r = 0 THEN << "Ok", val >> ELSE << "Err", "Timeout" >>

\* bookkeeping: the run of increments starts again from a zero value
RunFrom(value) == IF value = 0 THEN 0 ELSE -1

\* task.rs 251-253, first half of the kernel's notify-take (section 4.1):
\* with a zero value the task waits, and blocks unless the timeout is zero.
TakeEnter(t, self, clear, wait_for) ==
    /\ wait_op[t].op = "none"
    /\ LET cur == waiting_task(t, self)
           arg == take_notification_clear_arg(clear)
       IN /\ notif_state' = IF notif_value[cur] = 0
                              THEN [notif_state EXCEPT ![cur] = "Waiting"]
                              ELSE notif_state
          /\ wait_op' = [wait_op EXCEPT ![t] =
                [op |-> "take_notification", on |-> cur, clear |-> clear,
                 arg |-> arg, wait_for |-> wait_for,
                 phase |-> kernel_take_phase(notif_value[cur], wait_for),
                 notified |-> last_cmd[t] # NoCmd, seen |-> notif_value[t]]]
    /\ returned' = NoReturn
    /\ UNCHANGED << notif_value, last_cmd, inc_run, spawnVars, extVars >>

\* task.rs 251-253, second half of notify-take: the value is returned and,
\* when nonzero, cleared or decremented.
TakeExit(t) ==
    /\ wait_op[t].op = "take_notification"
    /\ wait_op[t].phase \in {"entered", "woken", "timed_out"}
    /\ LET cur == wait_op[t].on
           ret == notif_value[cur]
       IN /\ notif_value' = [notif_value EXCEPT ![cur] =
                                kernel_take_value(ret, wait_op[t].arg)]
          /\ notif_state' = [notif_state EXCEPT ![cur] = "NotWaiting"]
          /\ returned' = [op       |-> "take_notification",
                          task     |-> t,
                          clear    |-> wait_op[t].clear,
                          wait_for |-> wait_op[t].wait_for,
                          phase    |-> wait_op[t].phase,
                          notified |-> wait_op[t].notified,
                          seen     |-> wait_op[t].seen,
                          before   |-> notif_value[t],
                          ret      |-> ret,
                          last     |-> last_cmd[t],
                          run      |-> inc_run[t]]
    /\ wait_op' = [wait_op EXCEPT ![t] = NoWait]
    /\ last_cmd' = [last_cmd EXCEPT ![t] = NoCmd]
    /\ inc_run' = [inc_run EXCEPT ![t] = RunFrom(notif_value'[t])]
    /\ UNCHANGED << spawnVars, extVars >>

\* task.rs 256-266, first half of the kernel's notify-wait (section 4.1):
\* unless a notification is pending the entry bits are cleared and the task
\* waits, and blocks unless the timeout is zero.
WaitEnter(t, self, clear_bits_enter, clear_bits_exit, wait_for) ==
    /\ wait_op[t].op = "none"
    /\ LET cur     == waiting_task(t, self)
           pending == notif_state[cur] = "Received"
       IN /\ IF pending
               THEN UNCHANGED << notif_value, notif_state >>
               ELSE /\ notif_value' = [notif_value EXCEPT ![cur] =
                                          BitClear(@, clear_bits_enter)]
                    /\ notif_state' = [notif_state EXCEPT ![cur] = "Waiting"]
          /\ wait_op' = [wait_op EXCEPT ![t] =
                [op |-> "wait_for_notification", on |-> cur, clear |-> FALSE,
                 arg |-> clear_bits_exit, wait_for |-> wait_for,
                 phase |-> kernel_wait_phase(pending, wait_for),
                 notified |-> last_cmd[t] # NoCmd, seen |-> notif_value[t]]]
          /\ inc_run' = IF pending THEN inc_run
                        ELSE [inc_run EXCEPT ![t] = RunFrom(notif_value'[t])]
    /\ returned' = NoReturn
    /\ UNCHANGED << last_cmd, spawnVars, extVars >>

\* task.rs 262-273, second half of notify-wait: the value is stored through
\* the out pointer; with a notification pending the exit bits are cleared and
\* the status is 0, otherwise the status is nonzero.
WaitExit(t) ==
    /\ wait_op[t].op = "wait_for_notification"
    /\ wait_op[t].phase \in {"entered", "woken", "timed_out"}
    /\ LET cur     == wait_op[t].on
           pending == notif_state[cur] = "Received"
           val     == notif_value[cur]
           r       == kernel_wait_status(pending)
       IN /\ notif_value' = [notif_value EXCEPT ![cur] =
                                kernel_wait_value(val, pending, wait_op[t].arg)]
          /\ notif_state' = [notif_state EXCEPT ![cur] = "NotWaiting"]
          /\ returned' = [op       |-> "wait_for_notification",
                          task     |-> t,
                          wait_for |-> wait_op[t].wait_for,
                          exit     |-> wait_op[t].arg,
                          phase    |-> wait_op[t].phase,
                          notified |-> wait_op[t].notified,
                          seen     |-> wait_op[t].seen,
                          before   |-> notif_value[t],
                          pending  |-> notif_state[t] = "Received",
                          r        |-> r,
                          result   |-> wait_for_notification_result(r, val),
                          last     |-> last_cmd[t]]
    /\ wait_op' = [wait_op EXCEPT ![t] = NoWait]
    /\ last_cmd' = [last_cmd EXCEPT ![t] = NoCmd]
    /\ inc_run' = [inc_run EXCEPT ![t] = RunFrom(notif_value'[t])]
    /\ UNCHANGED << spawnVars, extVars >>

\* The kernel's tick: the timeout of a blocked take or wait elapses
\* (section 4.1); a wait without end does not time out.
Timeout(t) ==
    /\ wait_op[t].phase = "blocked"
    /\ wait_op[t].wait_for = "finite"
    /\ wait_op' = [wait_op EXCEPT ![t].phase = "timed_out"]
    /\ returned' = NoReturn
    /\ UNCHANGED << notif_value, notif_state, last_cmd, inc_run, spawnVars, extVars >>

(***************************************************************************)
(* Task::notify_from_isr                                                   *)
(***************************************************************************)
\* Variant of notify_from_isr_result: the status test is inverted.
notify_from_isr_result_inverted(t) ==
    IF t = 0 THEN << "Err", "QueueFull" >> ELSE << "Ok", "unit" >>

\* task.rs 242-246: if t != 0 { Err(QueueFull) } else { Ok(()) }
notify_from_isr_result(t) ==
    IF t # 0 THEN << "Err", "QueueFull" >> ELSE << "Ok", "unit" >>

\* Variant of notify_from_isr_flag: the kernel writes to a scratch word and
\* the context's flag keeps what it held.
notify_from_isr_flag_scratch(ctx_flag, kernel_flag) == ctx_flag

\* task.rs 241: the kernel's out parameter is context.get_task_field_mut(),
\* so what the kernel writes is what the context's flag holds afterwards
notify_from_isr_flag(ctx_flag, kernel_flag) == kernel_flag

\* TaskPriority (section 3): a smaller native value is a higher priority
higher_priority(a, b) ==
    TaskPriority_to_freertos(task_prio[a]) < TaskPriority_to_freertos(task_prio[b])

\* notify-from-isr (section 6): a reschedule is needed when the call makes a
\* blocked task ready that has a higher priority than the interrupted task
reschedule_needed(target) ==
    wait_op[target].phase = "blocked" /\ higher_priority(target, running)

\* notify-from-isr (section 6): the out flag is set when a reschedule is
\* needed and left alone otherwise
kernel_notify_isr_woken(target, flag) ==
    IF reschedule_needed(target) THEN 1 ELSE flag

\* An interrupt arrives while a task that is not blocked holds the
\* processor; the handler's InterruptContext starts with its flag clear.
IsrEnter ==
    /\ ~isr_ctx.active
    /\ \E t \in Tasks : wait_op[t].phase # "blocked" /\ running' = t
    /\ isr_ctx' = [active |-> TRUE, woken |-> 0]
    /\ returned' = NoReturn
    /\ UNCHANGED << task_prio, notif_value, notif_state, wait_op, last_cmd,
                    inc_run, spawnVars, delayVars, pureVars >>

\* task.rs 237-247, called by the running interrupt handler on the handle
\* `self`
NotifyFromIsr(self, n) ==
    /\ isr_ctx.active
    /\ LET nn     == TaskNotification_to_freertos(n)
           status == kernel_notify_status(notif_state[self] = "Received", nn[2])
       IN /\ freertos_rs_task_notify(self, nn[1], nn[2])
          /\ isr_ctx' = [isr_ctx EXCEPT !.woken =
                notify_from_isr_flag(@, kernel_notify_isr_woken(self, @))]
          /\ returned' = [op          |-> "notify_from_isr",
                          target      |-> self,
                          cmd         |-> n,
                          pending     |-> notif_state[self] = "Received",
                          blocked     |-> wait_op[self].phase = "blocked",
                          needed      |-> reschedule_needed(self),
                          interrupted |-> running,
                          status      |-> status,
                          result      |-> notify_from_isr_result(status)]
    /\ last_cmd' = [last_cmd EXCEPT ![self] = n]
    /\ inc_run' = [inc_run EXCEPT ![self] =
            IF n.kind = "Increment" /\ @ >= 0 THEN Min(@ + 1, IncCap) ELSE -1]
    /\ UNCHANGED << task_prio, running, spawnVars, delayVars, pureVars >>

\* The handler returns and its InterruptContext is dropped: with the flag
\* set the interrupt epilogue yields, and the ready task of the highest
\* priority goes on; otherwise the interrupted task goes on.
IsrExit ==
    /\ isr_ctx.active
    /\ LET better == {t \in Tasks : /\ wait_op[t].phase # "blocked"
                                    /\ higher_priority(t, running)}
       IN running' = IF isr_ctx.woken = 1 /\ better # {}
                       THEN CHOOSE t \in better :
                                \A u \in better : ~higher_priority(u, t)
                       ELSE running
    /\ isr_ctx' = [active |-> FALSE, woken |-> 0]
    /\ returned' = NoReturn
    /\ UNCHANGED << task_prio, notif_value, notif_state, wait_op, last_cmd,
                    inc_run, spawnVars, delayVars, pureVars >>

(***************************************************************************)
(* delays.rs: the tick count and TaskDelayPeriodic                         *)
(***************************************************************************)
\* the tick counter wraps at TickMod
TickMod == 2^TickBits

\* Duration (section 3): a count of ticks
TickDurations == {[ticks |-> n] : n \in 0..MaxPeriod}

\* Duration::to_ticks
Duration_to_ticks(d) == d.ticks

\* a helper that was not created yet
NoObject == [made |-> FALSE]

NoDelayRet == [op |-> "none"]

\* the subtraction did not produce a value: the task panicked
Overflow == -1

\* delays.rs 53: `c - self.last_wake_time` on the unsigned tick type.  When
\* the counter has wrapped since the baseline was taken, c is the smaller
\* number: a build with overflow checks panics ("attempt to subtract with
\* overflow"), a build without them wraps.
tick_sub(c, last_wake_time) ==
    IF c >= last_wake_time THEN c - last_wake_time
    ELSE IF overflow_checks THEN Overflow
    ELSE c - last_wake_time + TickMod

\* delays.rs 53-58: false below the period, true from the period on
should_run_result(elapsed, period) == ~(elapsed < Duration_to_ticks(period))

\* Variant of set_period: the baseline is taken anew as well.
set_period_and_reset(self, period) ==
    [self EXCEPT !.period = period, !.last_wake_time = tick]

\* delays.rs 62-64
set_period(self, period) == [self EXCEPT !.period = period]

\* delays.rs 67-69
reset(self) == [self EXCEPT !.last_wake_time = tick]

\* delays.rs 41-48: TaskDelayPeriodic::new
PeriodicNew(period) ==
    /\ delay_task = "running"
    /\ ~periodic.made
    /\ periodic' = [made |-> TRUE, last_wake_time |-> tick, period |-> period]
    /\ delay_ret' = [op |-> "new"]
    /\ UNCHANGED << tick, overflow_checks, delay_task, task_delay, since_reset,
                    set_from, delay_t0, delay_sum, delay_calls, isrVars,
                    spawnVars, notifyVars, pureVars >>

\* delays.rs 51-59: TaskDelayPeriodic::should_run
ShouldRun ==
    /\ delay_task = "running"
    /\ periodic.made
    /\ LET c       == tick
           elapsed == tick_sub(c, periodic.last_wake_time)
           outcome == IF elapsed = Overflow THEN "panic"
                      ELSE IF should_run_result(elapsed, periodic.period)
                        THEN "true" ELSE "false"
       IN /\ periodic' = IF outcome = "true"
                           THEN [periodic EXCEPT !.last_wake_time = c]
                           ELSE periodic
          /\ delay_task' = IF outcome = "panic" THEN "panicked" ELSE delay_task
          /\ delay_ret' = [op          |-> "should_run",
                           c           |-> c,
                           baseline    |-> periodic.last_wake_time,
                           period      |-> periodic.period,
                           since_reset |-> since_reset,
                           set_from    |-> set_from,
                           outcome     |-> outcome]
    /\ set_from' = NoObject
    /\ UNCHANGED << tick, overflow_checks, task_delay, since_reset, delay_t0,
                    delay_sum, delay_calls, isrVars, spawnVars, notifyVars, pureVars >>

\* delays.rs 62-64: TaskDelayPeriodic::set_period
SetPeriod(period) ==
    /\ delay_task = "running"
    /\ periodic.made
    /\ periodic' = set_period(periodic, period)
    /\ set_from' = [made       |-> TRUE,
                    baseline   |-> periodic.last_wake_time,
                    old_period |-> periodic.period,
                    period     |-> period]
    /\ delay_ret' = [op         |-> "set_period",
                     baseline   |-> periodic.last_wake_time,
                     old_period |-> periodic.period,
                     period     |-> period]
    /\ UNCHANGED << tick, overflow_checks, delay_task, task_delay, since_reset,
                    delay_t0, delay_sum, delay_calls, isrVars, spawnVars,
                    notifyVars, pureVars >>

\* delays.rs 67-69: TaskDelayPeriodic::reset
Reset ==
    /\ delay_task = "running"
    /\ periodic.made
    /\ periodic' = reset(periodic)
    /\ since_reset' = 0
    /\ set_from' = NoObject
    /\ delay_ret' = [op |-> "reset", c |-> tick]
    /\ UNCHANGED << tick, overflow_checks, delay_task, task_delay, delay_t0,
                    delay_sum, delay_calls, isrVars, spawnVars, notifyVars, pureVars >>

\* The kernel's tick interrupt: the counter goes up by one and wraps; a task
\* delayed until this tick is made ready.
Tick ==
    /\ tick' = (tick + 1) % TickMod
    /\ since_reset' = IF since_reset < 0 THEN -1 ELSE Min(since_reset + 1, TickMod)
    /\ delay_task' = IF delay_task = "delayed" /\ tick' = task_delay.last_wake_time
                       THEN "running" ELSE delay_task
    /\ delay_ret' = NoDelayRet
    /\ UNCHANGED << overflow_checks, periodic, task_delay, set_from, delay_t0,
                    delay_sum, delay_calls, isrVars, spawnVars, notifyVars, pureVars >>

(***************************************************************************)
(* delays.rs: TaskDelay                                                    *)
(***************************************************************************)
\* Variant of delay_until_last_wake: the kernel is handed the call-time
\* clock.
delay_until_last_wake_now(self) == tick

\* delays.rs 23: the kernel's in/out word is &mut self.last_wake_time
delay_until_last_wake(self) == self.last_wake_time

\* delay-until(in/out last-wake tick, ticks) (sections 4.4 and 6): the wake
\* target, which the kernel stores back into the in/out word
kernel_delay_until_wake(last_wake_time, ticks) == (last_wake_time + ticks) % TickMod

\* delay-until: the task blocks when the wake target is still ahead, that
\* is when fewer than `ticks` ticks have gone by since the last wake time
kernel_delay_until_blocks(now, last_wake_time, ticks) ==
    (now - last_wake_time + TickMod) % TickMod < ticks

\* delays.rs 15-17: TaskDelay::new
TaskDelayNew ==
    /\ delay_task = "running"
    /\ ~task_delay.made
    /\ task_delay' = [made |-> TRUE, last_wake_time |-> tick]
    /\ delay_t0' = tick
    /\ delay_sum' = 0
    /\ delay_calls' = 0
    /\ delay_ret' = [op |-> "TaskDelay::new"]
    /\ UNCHANGED << tick, overflow_checks, delay_task, periodic, since_reset,
                    set_from, isrVars, spawnVars, notifyVars, pureVars >>

\* delays.rs 21-26: TaskDelay::delay_until
DelayUntil(delay) ==
    /\ delay_task = "running"
    /\ task_delay.made
    /\ LET last   == delay_until_last_wake(task_delay)
           ticks  == Duration_to_ticks(delay)
           blocks == kernel_delay_until_blocks(tick, last, ticks)
       IN /\ task_delay' = [task_delay EXCEPT !.last_wake_time =
                               kernel_delay_until_wake(last, ticks)]
          /\ delay_task' = IF blocks THEN "delayed" ELSE "running"
          /\ delay_sum' = (delay_sum + ticks) % TickMod
          /\ delay_ret' = [op      |-> "delay_until",
                           c       |-> tick,
                           last    |-> task_delay.last_wake_time,
                           ticks   |-> ticks,
                           blocked |-> blocks]
    /\ delay_calls' = Min(delay_calls + 1, DelayCap)
    /\ UNCHANGED << tick, overflow_checks, periodic, since_reset, set_from,
                    delay_t0, isrVars, spawnVars, notifyVars, pureVars >>

(***************************************************************************)
(* Calls that keep no state: Task::current, TaskPriority::to_freertos and  *)
(* the name arguments of Task::spawn_inner                                 *)
(***************************************************************************)
NoCall == [fn |-> "none"]

\* task.rs 210: 0 as *const _
NullHandle == 0

\* the kernel's handle of a task: not null, and one per task
task_handle_of(t) == CASE t = "t1" -> 1 [] t = "t2" -> 2

\* where Task::current is called from: a task, or a context without one
Contexts == Tasks \cup {"no_task"}

\* get-current-task() -> handle-or-null (section 6)
freertos_rs_get_current_task(ctx) ==
    IF ctx \in Tasks THEN task_handle_of(ctx) ELSE NullHandle

\* Variant of Task_current_result: the handle is wrapped without a test.
Task_current_result_unchecked(t) == << "Ok", [task_handle |-> t] >>

\* task.rs 210-214
Task_current_result(t) ==
    IF t # NullHandle THEN << "Ok", [task_handle |-> t] >>
    ELSE << "Err", "TaskNotFound" >>

\* task.rs 207-216: Task::current
Current(ctx) ==
    /\ LET t == freertos_rs_get_current_task(ctx)
       IN pure_call' = [fn     |-> "current",
                        ctx    |-> ctx,
                        t      |-> t,
                        result |-> Task_current_result(t)]
    /\ UNCHANGED << isrVars, delayVars, spawnVars, notifyVars >>

\* task.rs 53-62: TaskPriority::to_freertos, applied to two levels
ToFreertos(p, q) ==
    /\ pure_call' = [fn |-> "to_freertos",
                     p  |-> p,
                     q  |-> q,
                     np |-> TaskPriority_to_freertos(p),
                     nq |-> TaskPriority_to_freertos(q)]
    /\ UNCHANGED << isrVars, delayVars, spawnVars, notifyVars >>

\* the addresses a name may lie at
NameAddrs == {"a1", "a2"}

\* a name: where its bytes start and how many they are
Names == {[ptr |-> a, len |-> n] : a \in NameAddrs, n \in 0..MaxNameLen}

\* task.rs 146: name.as_ptr()
name_as_ptr(name) == name.ptr

\* task.rs 139-147: the name arguments Task::spawn_inner hands to
\* freertos_rs_spawn_task
SpawnName(name) ==
    /\ pure_call' = [fn       |-> "spawn_name",
                     name     |-> name,
                     name_ptr |-> name_as_ptr(name),
                     name_len |-> name_len_as_u8(name.len)]
    /\ UNCHANGED << isrVars, delayVars, spawnVars, notifyVars >>

(***************************************************************************)
(* Claims about Task::spawn                                                *)
(***************************************************************************)
C1_Safe(c) ==
    /\ closure_runs[c] <= 1
    /\ closure_returns[c] <= closure_runs[c]
    /\ delete_calls[c] <= 1
    /\ delete_calls[c] > 0 => closure_returns[c] = 1 /\ unit_state[c] = "deleted"
    /\ unit_state[c] = "deleted" => delete_calls[c] = 1
    /\ closure_runs[c] > 0 => spawn_success(spawn_ret[c])

\* C1: after a successful spawn the trampoline enters the closure exactly
\* once (never a second time), calls the delete-task primitive on its own
\* unit only after the closure has returned, and the unit terminates once the
\* closure has finished.
C1_RunsOnceThenDeletes ==
    \A c \in Calls :
        /\ [] C1_Safe(c)
        /\ (spawn_result[c] = "Ok") ~> (closure_runs[c] = 1)
        /\ (closure_returns[c] = 1) ~> (unit_state[c] = "deleted")

C1_Witness ==
    \E c \in Calls :
        /\ spawn_result[c] = "Ok"
        /\ closure_runs[c] = 1
        /\ closure_returns[c] = 1
        /\ delete_calls[c] = 1
        /\ unit_state[c] = "deleted"

\* C2: when the create-task primitive reports failure, spawn returns
\* Err(OutOfMemory) and no handle, the closure is never invoked, the spawning
\* side drops it exactly once, and neither the trampoline nor the delete-task
\* primitive runs for it.
C2_FailureDropsOnce ==
    \A c \in Calls :
        (spawn_pc[c] \in {"created", "returned"} /\ ~spawn_success(spawn_ret[c])) =>
            /\ spawn_result[c] # "Ok"
            /\ closure_runs[c] = 0
            /\ unit_state[c] = "absent"
            /\ unit_pc[c] = 0
            /\ ~unit_owns[c]
            /\ delete_calls[c] = 0
            /\ spawn_pc[c] = "created" => frees[c] = << >> /\ closure_box[c] = "live"
            /\ spawn_pc[c] = "returned" =>
                  /\ spawn_result[c] = "OutOfMemory"
                  /\ frees[c] = << "spawn_inner" >>
                  /\ closure_box[c] = "freed"

C2_Witness ==
    \E c \in Calls :
        /\ spawn_pc[c] = "returned"
        /\ ~spawn_success(spawn_ret[c])
        /\ spawn_result[c] = "OutOfMemory"

\* C3: when spawn succeeds the boxed closure is freed exactly once, by the
\* trampoline, in every interleaving of the spawner and the new unit: never
\* by the spawner, never twice, live while the closure runs, and freed once
\* the trampoline is through.
C3_FreedOnceByTrampoline ==
    \A c \in Calls :
        (spawn_pc[c] \in {"created", "returned"} /\ spawn_success(spawn_ret[c])) =>
            /\ frees[c] \in { << >>, << "thread_start" >> }
            /\ closure_box[c] = (IF frees[c] = << >> THEN "live" ELSE "freed")
            /\ unit_state[c] = "in_closure" => closure_box[c] = "live"
            /\ frees[c] # << >> => closure_returns[c] = 1
            /\ unit_state[c] = "deleted" => frees[c] = << "thread_start" >>

\* the new unit has run its trampoline to the end and deleted itself while
\* the spawner has not yet reached its release step (task.rs 155-156)
C3_Witness ==
    \E c \in Calls :
        /\ spawn_pc[c] = "created"
        /\ spawn_success(spawn_ret[c])
        /\ unit_state[c] = "deleted"
        /\ frees[c] = << "thread_start" >>

(***************************************************************************)
(* Claims about the notifications                                          *)
(***************************************************************************)
IsTake == returned.op = "take_notification"

IsWait == returned.op = "wait_for_notification"

IsNotify == returned.op \in {"notify", "set_notification_value"}

\* C4 as stated: a take or wait that begins after a notify of the task has
\* completed returns the notified value without blocking or timing out,
\* whatever the command.
C4_Original ==
    /\ \A t \in Waiters :
          wait_op[t].op # "none" /\ wait_op[t].notified => wait_op[t].phase = "entered"
    /\ (IsTake /\ returned.notified) =>
          returned.phase = "entered" /\ returned.ret = returned.before
    /\ (IsWait /\ returned.notified) =>
          returned.phase = "entered" /\ returned.result = << "Ok", returned.before >>

\* C4, amended: a wait_for_notification that begins after a notify of the
\* task has completed never blocks and returns Ok with the task's
\* notification value; a take_notification that begins after such a notify
\* does so when the value it finds is nonzero (with a zero value it waits
\* like any other take).
C4_NotifyBeforeWaitObserved ==
    /\ \A t \in Waiters :
          (wait_op[t].op # "none" /\ wait_op[t].notified
             /\ (wait_op[t].op = "wait_for_notification" \/ wait_op[t].seen # 0))
          => wait_op[t].phase = "entered"
    /\ (IsTake /\ returned.notified /\ returned.seen # 0) =>
          returned.phase = "entered" /\ returned.ret = returned.before
    /\ (IsWait /\ returned.notified) =>
          returned.phase = "entered" /\ returned.result = << "Ok", returned.before >>

C4_Witness ==
    /\ IsWait
    /\ returned.notified
    /\ returned.wait_for = "finite"
    /\ returned.last.kind = "NoAction"
    /\ returned.result = << "Ok", 0 >>

\* C5: a take_notification(clear = false) that follows notify(SetBits(m))
\* returns a value in which every bit of m is set.
C5_SetBitsThenTake ==
    (IsTake /\ ~returned.clear /\ returned.last.kind = "SetBits") =>
        BitAnd(returned.ret, returned.last.v) = returned.last.v

\* the mask is merged into a prior value that has other bits
C5_Witness ==
    /\ IsTake
    /\ ~returned.clear
    /\ returned.last.kind = "SetBits"
    /\ returned.last.v # 0
    /\ returned.ret # returned.last.v
    /\ returned.wait_for # "zero"

\* C6: from a zero value, two notify(Increment) with no take in between are
\* delivered by one take as the value 2, and nothing is left queued: the
\* value is then 0 (clear) or 1 (no clear) and nothing is pending.
C6_TwoIncrementsOneTake ==
    (IsTake /\ returned.run = 2) =>
        /\ returned.ret = 2
        /\ notif_value[returned.task] = (IF returned.clear THEN 0 ELSE 1)
        /\ notif_state[returned.task] = "NotWaiting"
        /\ last_cmd[returned.task] = NoCmd

C6_Witness ==
    /\ IsTake
    /\ returned.run = 2
    /\ returned.ret = 2
    /\ returned.clear
    /\ notif_value[returned.task] = 0

\* C7: notify(SetValue(v)) leaves the value as it is when a notification is
\* pending and sets it to v when none is; notify(OverwriteValue(v)) and
\* set_notification_value(v) set it to v in either case.
C7_SetValueOnlyIfNotPending ==
    /\ (IsNotify /\ returned.cmd.kind = "SetValue") =>
          notif_value[returned.target] =
             (IF returned.pending THEN returned.before ELSE returned.cmd.v)
    /\ (IsNotify /\ returned.cmd.kind = "OverwriteValue") =>
          notif_value[returned.target] = returned.cmd.v
    /\ returned.op = "set_notification_value" =>
          returned.cmd.kind = "OverwriteValue"

C7_Witness ==
    /\ returned.op = "notify"
    /\ returned.cmd.kind = "SetValue"
    /\ returned.pending
    /\ returned.cmd.v # returned.before
    /\ notif_value[returned.target] = returned.before

\* C8: take_notification returns the caller's notification value; a nonzero
\* value is then zero when clear is true and one less when clear is false;
\* a take stays blocked only while the value is zero, and after a timeout
\* with no notification it returns zero and leaves the value as it was.
C8_TakeReturnsAndClearsOrDecrements ==
    /\ \A t \in Waiters :
          (wait_op[t].op = "take_notification" /\ wait_op[t].phase = "blocked")
          => notif_value[t] = 0
    /\ IsTake =>
          /\ returned.ret = returned.before
          /\ returned.ret # 0 =>
                notif_value[returned.task] =
                   (IF returned.clear THEN 0 ELSE returned.ret - 1)
          /\ returned.ret = 0 => notif_value[returned.task] = returned.before
          /\ (returned.phase = "timed_out" /\ returned.last = NoCmd) =>
                returned.ret = 0 /\ notif_value[returned.task] = returned.before

\* a blocked take is woken and returns a value above one, which it decrements
C8_Witness ==
    /\ IsTake
    /\ ~returned.clear
    /\ returned.phase = "woken"
    /\ returned.ret > 1
    /\ notif_value[returned.task] = returned.ret - 1

\* C9: wait_for_notification with a zero timeout never blocks, and returns
\* Err(Timeout) when no notification is pending; in general it returns
\* Ok(value) exactly when the kernel's notify-wait reports a notification
\* (status 0) and Err(Timeout) otherwise.
C9_WaitResult ==
    /\ \A t \in Waiters :
          (wait_op[t].op = "wait_for_notification" /\ wait_op[t].wait_for = "zero")
          => wait_op[t].phase = "entered"
    /\ IsWait =>
          /\ returned.result =
                (IF returned.r = 0 THEN << "Ok", returned.before >>
                                   ELSE << "Err", "Timeout" >>)
          /\ (returned.wait_for = "zero" /\ ~returned.pending) =>
                returned.phase = "entered" /\ returned.result = << "Err", "Timeout" >>

C9_Witness ==
    /\ IsWait
    /\ returned.wait_for = "zero"
    /\ ~returned.pending
    /\ returned.phase = "entered"
    /\ returned.result = << "Err", "Timeout" >>

\* task.rs 27-38: what each command does to a notification value
ApplyCommand(n, value, pending) ==
    CASE n.kind = "NoAction"       -> value
      [] n.kind = "SetBits"        -> BitOr(value, n.v)
      [] n.kind = "Increment"      -> (value + 1) % (2^ValueBits)
      [] n.kind = "OverwriteValue" -> n.v
      [] n.kind = "SetValue"       -> IF pending THEN value ELSE n.v

C10_UnblockedReached ==
    /\ IsNotify
    /\ returned.blocked
    /\ wait_op[returned.target].phase = "woken"
    /\ wait_op[returned.target].wait_for = "infinite"

(***************************************************************************)
(* Claims about Task::notify_from_isr                                      *)
(***************************************************************************)
IsNotifyFromIsr == returned.op = "notify_from_isr"

\* C11: notify_from_isr returns to the handler that called it, which is
\* still running, and the interrupted task is still the one that holds the
\* processor; the result is Err(QueueFull) exactly when the kernel's status
\* is nonzero and Ok(()) exactly when it is zero; and whenever the call made a
\* task of higher priority ready, the context's higher-priority-task-woken
\* flag is set for the epilogue.
C11_NotifyFromIsr ==
    IsNotifyFromIsr =>
        /\ isr_ctx.active
        /\ running = returned.interrupted
        /\ (returned.result = << "Err", "QueueFull" >>) <=> (returned.status # 0)
        /\ (returned.result = << "Ok", "unit" >>) <=> (returned.status = 0)
        /\ returned.needed => isr_ctx.woken = 1

\* the kernel reported backpressure to a handler's notify_from_isr
C11_Witness ==
    /\ IsNotifyFromIsr
    /\ returned.status # 0
    /\ returned.result = << "Err", "QueueFull" >>

\* a handler's notify_from_isr made a task of higher priority ready
C11_RescheduleReached ==
    /\ IsNotifyFromIsr
    /\ returned.needed
    /\ returned.status = 0
    /\ isr_ctx.woken = 1
    /\ running # returned.target

\* a handler's notify_from_isr made a task ready that does not have a
\* higher priority than the interrupted one, and the flag stays clear
C11_NoRescheduleReached ==
    /\ IsNotifyFromIsr
    /\ returned.blocked
    /\ ~returned.needed
    /\ isr_ctx.woken = 0

(***************************************************************************)
(* Claims about TaskDelayPeriodic                                          *)
(***************************************************************************)
IsShouldRun == delay_ret.op = "should_run"

\* the ticks from the baseline to the call, modulo the counter width
Elapsed == (delay_ret.c - delay_ret.baseline + TickMod) % TickMod

\* C12: a should_run call that finds fewer ticks elapsed since the baseline
\* than the period returns false and leaves baseline and period as they
\* were; a call that finds at least the period elapsed returns true and
\* makes the current tick the baseline, leaving the period as it was.
C12_ShouldRun ==
    IsShouldRun =>
        /\ periodic.period = delay_ret.period
        /\ Elapsed < Duration_to_ticks(delay_ret.period) =>
              /\ delay_ret.outcome = "false"
              /\ periodic.last_wake_time = delay_ret.baseline
        /\ Elapsed >= Duration_to_ticks(delay_ret.period) =>
              /\ delay_ret.outcome = "true"
              /\ periodic.last_wake_time = delay_ret.c

\* C13: a should_run call made after a reset(), while the tick counter has
\* advanced by less than the (nonzero) period since that reset, returns
\* false, whatever calls came before the reset.
C13_FalseUntilPeriodAfterReset ==
    (/\ IsShouldRun
     /\ delay_ret.since_reset >= 0
     /\ Duration_to_ticks(delay_ret.period) # 0
     /\ delay_ret.since_reset < Duration_to_ticks(delay_ret.period))
        => delay_ret.outcome = "false"

\* C14: a should_run call that finds the tick counter wrapped since the
\* baseline was taken (the current tick is the smaller number) completes
\* normally and decides against the period from the difference modulo the
\* counter width.
C14_WrapSafeSubtraction ==
    (IsShouldRun /\ delay_ret.c < delay_ret.baseline) =>
        /\ delay_ret.outcome # "panic"
        /\ delay_ret.outcome =
              IF Elapsed < Duration_to_ticks(delay_ret.period) THEN "false" ELSE "true"

\* the subtraction across the wraparound in a build that wraps
C14_WrappedReached ==
    /\ IsShouldRun
    /\ delay_ret.c < delay_ret.baseline
    /\ delay_ret.outcome = "true"
    /\ periodic.last_wake_time = delay_ret.c

\* C18: set_period leaves the baseline as it found it and makes the period
\* the one it was given; the should_run call that follows measures from that
\* same baseline against the new period, and when it returns, it returns
\* true exactly when the ticks elapsed since that baseline have reached the
\* new period.
C18_SetPeriodKeepsBaseline ==
    /\ delay_ret.op = "set_period" =>
          /\ periodic.made
          /\ periodic.last_wake_time = delay_ret.baseline
          /\ periodic.period = delay_ret.period
    /\ (IsShouldRun /\ delay_ret.set_from.made) =>
          /\ delay_ret.baseline = delay_ret.set_from.baseline
          /\ delay_ret.period = delay_ret.set_from.period
          /\ delay_ret.outcome = "true" =>
                Elapsed >= Duration_to_ticks(delay_ret.set_from.period)
          /\ delay_ret.outcome = "false" =>
                Elapsed < Duration_to_ticks(delay_ret.set_from.period)

\* a period was shortened some ticks after the baseline was taken, and the
\* next should_run returns true although the old period has not elapsed
C18_Witness ==
    /\ IsShouldRun
    /\ delay_ret.set_from.made
    /\ delay_ret.outcome = "true"
    /\ Elapsed > 0
    /\ Elapsed < Duration_to_ticks(delay_ret.set_from.old_period)

(***************************************************************************)
(* Claims about TaskDelay                                                  *)
(***************************************************************************)
\* C15: the baseline stored in a TaskDelay is the tick at which it was
\* created plus the sum of the delays asked of delay_until since, modulo the
\* counter width (t0 + N*d after N calls with the same d), however many
\* ticks went by between the calls.
C15_BaselineFromIntendedWake ==
    task_delay.made =>
        task_delay.last_wake_time = (delay_t0 + delay_sum) % TickMod

\* a second or later delay_until that is called late: the work since the
\* last wake took longer than the delay, and the task does not block
C15_Witness ==
    /\ delay_ret.op = "delay_until"
    /\ delay_calls >= 2
    /\ delay_ret.ticks > 0
    /\ ~delay_ret.blocked
    /\ delay_ret.c # delay_ret.last
    /\ task_delay.last_wake_time # (delay_ret.c + delay_ret.ticks) % TickMod

(***************************************************************************)
(* Claims about Task::current, TaskPriority and the name of a task         *)
(***************************************************************************)
\* C16: Task::current returns Ok with the kernel's handle of the calling
\* task when the kernel reports a handle that is not null, returns
\* Err(TaskNotFound) exactly when the kernel reports null, and never returns
\* Ok with a null handle.
C16_CurrentHandleOrTaskNotFound ==
    pure_call.fn = "current" =>
        /\ pure_call.t # NullHandle =>
              /\ pure_call.ctx \in Tasks
              /\ pure_call.result =
                    << "Ok", [task_handle |-> task_handle_of(pure_call.ctx)] >>
        /\ (pure_call.result = << "Err", "TaskNotFound" >>)
              <=> (pure_call.t = NullHandle)
        /\ pure_call.result[1] = "Ok" =>
              pure_call.result[2].task_handle # NullHandle

\* Task::current called where there is no current task
C16_Witness ==
    /\ pure_call.fn = "current"
    /\ pure_call.t = NullHandle
    /\ pure_call.result = << "Err", "TaskNotFound" >>

\* C17: of two TaskPriority levels the higher one in the order BelowNormal <
\* Normal < AboveNormal < High maps to the strictly smaller native value, and
\* two different levels map to different native values.
C17_PriorityOrderReversing ==
    pure_call.fn = "to_freertos" =>
        /\ TaskPriority_rank(pure_call.p) < TaskPriority_rank(pure_call.q)
              => pure_call.np > pure_call.nq
        /\ pure_call.p # pure_call.q => pure_call.np # pure_call.nq

\* the two ends of the order were mapped
C17_Witness ==
    /\ pure_call.fn = "to_freertos"
    /\ pure_call.p = "BelowNormal"
    /\ pure_call.q = "High"
    /\ pure_call.np > pure_call.nq

\* C20: the name length handed to the create-task primitive is at most 255,
\* is the name's byte length when that is at most 255, is the byte length
\* less 256 for a longer name (0 for a name of 256 bytes), and the name
\* pointer handed over is the start of the name.
C20_NameLengthModulo256 ==
    pure_call.fn = "spawn_name" =>
        /\ pure_call.name_len \in 0..255
        /\ pure_call.name.len <= 255 => pure_call.name_len = pure_call.name.len
        /\ pure_call.name.len > 255 =>
              /\ pure_call.name_len # pure_call.name.len
              /\ \E k \in 1..(MaxNameLen \div 256 + 1) :
                    pure_call.name_len + 256 * k = pure_call.name.len
        /\ pure_call.name.len = 256 => pure_call.name_len = 0
        /\ pure_call.name_ptr = pure_call.name.ptr

\* a name of 256 bytes is handed over with length 0
C20_Witness ==
    /\ pure_call.fn = "spawn_name"
    /\ pure_call.name.len = 256
    /\ pure_call.name_len = 0
    /\ pure_call.name_ptr = pure_call.name.ptr

(***************************************************************************)
(* Claims about the handle of take_notification and wait_for_notification  *)
(***************************************************************************)
\* C19: a step in which a task enters or leaves take_notification or
\* wait_for_notification, called on the handle of another task, leaves the
\* notification value, the pending mark and the blocking state of every
\* other task as they were; the call waits on the calling task, and what it
\* returns is the calling task's notification value.
C19_ActsOnCaller ==
    [][\A t \in Waiters :
          (wait_op[t].op = "none") # (wait_op'[t].op = "none") =>
              /\ \A u \in Tasks \ {t} :
                    /\ notif_value'[u] = notif_value[u]
                    /\ notif_state'[u] = notif_state[u]
                    /\ wait_op'[u] = wait_op[u]
              /\ wait_op'[t].op # "none" => wait_op'[t].on = t
              /\ returned'.op = "take_notification" =>
                    returned'.ret = notif_value[t]
              /\ (/\ returned'.op = "wait_for_notification"
                  /\ returned'.result[1] = "Ok") =>
                    returned'.result[2] = notif_value[t]
      ]_vars

\* a take_notification called on the handle of another task returned the
\* caller's value, while the other task's different value is pending still
C19_Witness ==
    /\ IsTake
    /\ returned.ret # 0
    /\ \E u \in Tasks \ {returned.task} :
          /\ notif_value[u] # 0
          /\ notif_value[u] # returned.ret
          /\ notif_state[u] = "Received"

\* a wait_for_notification called on the handle of another task timed out,
\* while a notification of the other task is pending
C19_WaitTimedOutReached ==
    /\ IsWait
    /\ returned.result = << "Err", "Timeout" >>
    /\ \E u \in Tasks \ {returned.task} :
          /\ notif_value[u] # 0
          /\ notif_state[u] = "Received"

(***************************************************************************)
(* Specifications                                                          *)
(***************************************************************************)
SpawnInit ==
    /\ spawn_pc = [c \in Calls |-> "idle"]
    /\ spawn_cfg = [c \in Calls |-> NoConfig]
    /\ spawn_ret = [c \in Calls |-> -1]
    /\ spawn_result = [c \in Calls |-> "none"]
    /\ closure_box = [c \in Calls |-> "none"]
    /\ frees = [c \in Calls |-> << >>]
    /\ closure_runs = [c \in Calls |-> 0]
    /\ closure_returns = [c \in Calls |-> 0]
    /\ unit_state = [c \in Calls |-> "absent"]
    /\ unit_pc = [c \in Calls |-> 0]
    /\ unit_owns = [c \in Calls |-> FALSE]
    /\ unit_created = [c \in Calls |-> NoUnit]
    /\ delete_calls = [c \in Calls |-> 0]

\* Every task starts with a zero notification value and nothing pending.
NotifyInit ==
    /\ notif_value = [t \in Tasks |-> 0]
    /\ notif_state = [t \in Tasks |-> "NotWaiting"]
    /\ wait_op = [t \in Tasks |-> NoWait]
    /\ last_cmd = [t \in Tasks |-> NoCmd]
    /\ inc_run = [t \in Tasks |-> 0]
    /\ returned = NoReturn

IsrInit ==
    /\ running = "t2"
    /\ isr_ctx = [active |-> FALSE, woken |-> 0]

DelayInit ==
    /\ tick = 0
    /\ delay_task = "running"
    /\ periodic = NoObject
    /\ task_delay = NoObject
    /\ delay_ret = NoDelayRet
    /\ since_reset = -1
    /\ set_from = NoObject
    /\ delay_t0 = 0
    /\ delay_sum = 0
    /\ delay_calls = 0
    /\ pure_call = NoCall

Init ==
    /\ SpawnInit
    /\ NotifyInit
    /\ IsrInit
    /\ task_prio = [t \in Tasks |-> "Normal"]
    /\ DelayInit
    /\ overflow_checks = FALSE

Next ==
    \/ \E caller \in Tasks, self \in Waiters : Notify(caller, self)
    \/ \E caller \in Tasks, self \in Waiters : SetNotificationValue(caller, self)
    \/ \E t \in Waiters, self \in Tasks, clear \in BOOLEAN, wait_for \in Durations :
          TakeEnter(t, self, clear, wait_for)
    \/ \E t \in Waiters : TakeExit(t)
    \/ \E t \in Waiters, self \in Tasks, clear_bits_enter \in Masks,
             clear_bits_exit \in Masks, wait_for \in Durations :
          WaitEnter(t, self, clear_bits_enter, clear_bits_exit, wait_for)
    \/ \E t \in Waiters : WaitExit(t)
    \/ \E t \in Waiters : Timeout(t)

Spec == Init /\ [][Next]_vars

SpawnNext ==
    \E c \in Calls :
        \/ SpawnBox(c)
        \/ SpawnCreate(c)
        \/ SpawnFinish(c)
        \/ ThreadStartStep(c)
        \/ ClosureReturn(c)

SpawnSpec == Init /\ [][SpawnNext]_vars

\* The kernel schedules every ready unit: a unit that can take a step of
\* thread_start eventually takes it.  Nothing forces a closure to return.
FairSpawnSpec ==
    SpawnSpec /\ \A c \in Calls : WF_vars(ThreadStartStep(c))

\* Interrupt handlers notifying a task that takes and waits: while a handler
\* runs no task runs.
IsrPriorities ==
    {[t \in Tasks |-> IF t \in Waiters THEN p ELSE "AboveNormal"] :
        p \in {"Normal", "High"}}

IsrSpecInit ==
    /\ SpawnInit
    /\ NotifyInit
    /\ IsrInit
    /\ task_prio \in IsrPriorities
    /\ DelayInit
    /\ overflow_checks = FALSE

IsrNext ==
    \/ IsrEnter
    \/ \E self \in Waiters, n \in TaskNotification : NotifyFromIsr(self, n)
    \/ IsrExit
    \/ /\ ~isr_ctx.active
       /\ \/ \E t \in Waiters, clear \in BOOLEAN, wait_for \in Durations :
                TakeEnter(t, t, clear, wait_for)
          \/ \E t \in Waiters : TakeExit(t)
          \/ \E t \in Waiters, wait_for \in Durations :
                WaitEnter(t, t, 0, 0, wait_for)
          \/ \E t \in Waiters : WaitExit(t)
          \/ \E t \in Waiters : Timeout(t)

IsrSpec == IsrSpecInit /\ [][IsrNext]_vars

\* One task using a TaskDelayPeriodic while the kernel counts ticks, in a
\* build of either profile.
PeriodicInit ==
    /\ SpawnInit
    /\ NotifyInit
    /\ IsrInit
    /\ task_prio = [t \in Tasks |-> "Normal"]
    /\ DelayInit
    /\ overflow_checks \in BOOLEAN

PeriodicNext ==
    \/ \E period \in TickDurations : PeriodicNew(period)
    \/ ShouldRun
    \/ \E period \in TickDurations : SetPeriod(period)
    \/ Reset
    \/ Tick

PeriodicSpec == PeriodicInit /\ [][PeriodicNext]_vars

\* One task pacing itself with a TaskDelay while the kernel counts ticks.
DelayUntilNext ==
    \/ TaskDelayNew
    \/ \E delay \in TickDurations : DelayUntil(delay)
    \/ Tick

DelayUntilSpec == Init /\ [][DelayUntilNext]_vars

\* The calls that keep no state, on every input.
CallNext ==
    \/ \E ctx \in Contexts : Current(ctx)
    \/ \E p \in TaskPriority, q \in TaskPriority : ToFreertos(p, q)
    \/ \E name \in Names : SpawnName(name)

CallSpec == Init /\ [][CallNext]_vars

\* A task that takes and waits on the handle of another task, while both
\* are notified.
HandleCommands ==
    { [kind |-> "Increment", v |-> 0], [kind |-> "OverwriteValue", v |-> 0] }

HandleNext ==
    \/ \E caller \in Tasks \ Waiters, self \in Tasks, n \in HandleCommands :
          NotifyCall(caller, self, n, "notify")
    \/ \E t \in Waiters : \E self \in Tasks \ {t}, clear \in BOOLEAN,
                                wait_for \in Durations :
          TakeEnter(t, self, clear, wait_for)
    \/ \E t \in Waiters : TakeExit(t)
    \/ \E t \in Waiters : \E self \in Tasks \ {t}, clear_bits_exit \in Masks,
                                wait_for \in Durations :
          WaitEnter(t, self, 0, clear_bits_exit, wait_for)
    \/ \E t \in Waiters : WaitExit(t)
    \/ \E t \in Waiters : Timeout(t)

HandleSpec == Init /\ [][HandleNext]_vars

====
